---- MODULE Spec2Model ----
(***************************************************************************)
(* A model of tmaxmax/xml-to-graph: the format-string compiler and the     *)
(* graph printer (printer.go), the pooled output buffers of Printer.Print, *)
(* and the two XML decoders FromXML / FromXMLNoStd (xml.go).               *)
(*                                                                         *)
(* Strings are sequences of one-character strings, indexed from 0 through  *)
(* At/Slice so that the offsets read as in the Go source.  float64 values  *)
(* are exact decimals [m, e] standing for m / 10^e; the inputs are chosen  *)
(* so that the float64 arithmetic of the program is exact on them.         *)
(***************************************************************************)
EXTENDS Integers, Sequences, FiniteSets, TLC

(***************************************************************************)
(* Bounds of the model.                                                    *)
(***************************************************************************)
MaxFormatLen == 4
MaxCalls == 2
MaxNodes == 3
MaxEdges == 2
MaxDepth == 4
MaxElems == 2
MaxDocEdges == 1
MaxPaths == 2
MaxProcs == 2

(***************************************************************************)
(* Strings and runes.                                                      *)
(***************************************************************************)
Str0 == << >>

At(s, i) == s[i + 1]

\* s[i:j] of Go, 0-based, j exclusive
Slice(s, i, j) == IF j <= i THEN << >> ELSE SubSeq(s, i + 1, j)

\* the code point of a rune of the model's alphabets
RuneCode(c) ==
    CASE c = "\n" -> 10
      [] c = " " -> 32
      [] c = "%" -> 37
      [] c = "+" -> 43
      [] c = "-" -> 45
      [] c = "." -> 46
      [] c = "0" -> 48
      [] c = "1" -> 49
      [] c = "2" -> 50
      [] c = "3" -> 51
      [] c = "4" -> 52
      [] c = "5" -> 53
      [] c = "6" -> 54
      [] c = "7" -> 55
      [] c = "8" -> 56
      [] c = "9" -> 57
      [] c = "C" -> 67
      [] c = "F" -> 70
      [] c = "M" -> 77
      [] c = "N" -> 78
      [] c = "R" -> 82
      [] c = "X" -> 88
      [] c = "a" -> 97
      [] c = "m" -> 109
      [] c = "n" -> 110
      [] c = "t" -> 116
      [] c = "w" -> 119
      [] c = "x" -> 120
      [] c = "z" -> 122

IsDigit(c) == RuneCode(c) >= 48 /\ RuneCode(c) <= 57

DigitVal(c) == RuneCode(c) - 48

\* strings.IndexByte / strings.IndexFunc: the first 0-based index, or -1
RECURSIVE IndexFrom(_, _, _)
IndexFrom(s, P(_), i) ==
    IF i >= Len(s) THEN -1
    ELSE IF P(At(s, i)) THEN i
    ELSE IndexFrom(s, P, i + 1)

IndexFunc(s, P(_)) == IndexFrom(s, P, 0)

IsPercent(c) == c = "%"

IndexByte(s) == IndexFunc(s, IsPercent)

(***************************************************************************)
(* Numbers.  A decimal [m, e] stands for m / 10^e.                         *)
(***************************************************************************)
RECURSIVE Pow10(_)
Pow10(k) == IF k = 0 THEN 1 ELSE 10 * Pow10(k - 1)

RECURSIVE Norm(_)
Norm(d) ==
    IF d.e > 0 /\ d.m % 10 = 0 THEN Norm([m |-> d.m \div 10, e |-> d.e - 1])
    ELSE d

Dec(m, e) == Norm([m |-> m, e |-> e])

DecInt(n) == [m |-> n, e |-> 0]

DecMul(a, b) == Dec(a.m * b.m, a.e + b.e)

\* math.Floor, math.Ceil, math.Round (half away from zero)
Floor(d) == DecInt(d.m \div Pow10(d.e))

Ceil(d) == DecInt(-((-d.m) \div Pow10(d.e)))

Abs(n) == IF n < 0 THEN -n ELSE n

Round(d) ==
    LET p == Pow10(d.e)
        q == (2 * Abs(d.m) + p) \div (2 * p)
    IN  DecInt(IF d.m < 0 THEN -q ELSE q)

\* the value of a run of digits
RECURSIVE DigitsVal(_)
DigitsVal(s) ==
    IF Len(s) = 0 THEN 0
    ELSE 10 * DigitsVal(Slice(s, 0, Len(s) - 1)) + DigitVal(At(s, Len(s) - 1))

AllDigits(s) == \A i \in 1..Len(s) : IsDigit(s[i])

HasSign(s) == Len(s) > 0 /\ s[1] \in {"+", "-"}

Unsigned(s) == IF HasSign(s) THEN Tail(s) ELSE s

\* strconv.Atoi: an optional sign and one or more decimal digits
Atoi(s) ==
    LET u == Unsigned(s)
    IN  IF Len(u) = 0 \/ ~AllDigits(u) THEN [err |-> TRUE, v |-> 0]
        ELSE [err |-> FALSE,
              v |-> IF HasSign(s) /\ s[1] = "-" THEN -DigitsVal(u) ELSE DigitsVal(u)]

IsDot(c) == c = "."

\* strconv.ParseFloat(s, 64) on the model's alphabets: an optional sign, digits
\* with at most one ".", at least one digit
ParseFloat(s) ==
    LET u == Unsigned(s)
        d == IndexFunc(u, IsDot)
        ip == IF d = -1 THEN u ELSE Slice(u, 0, d)
        fp == IF d = -1 THEN << >> ELSE Slice(u, d + 1, Len(u))
        ok == /\ Len(ip) + Len(fp) > 0
              /\ AllDigits(ip)
              /\ AllDigits(fp)
        mag == DigitsVal(ip \o fp)
    IN  IF ~ok THEN [err |-> TRUE, v |-> DecInt(0)]
        ELSE [err |-> FALSE,
              v |-> Dec(IF HasSign(s) /\ s[1] = "-" THEN -mag ELSE mag, Len(fp))]

IsSpace(c) == c \in {" ", "\n"}

\* strings.TrimSpace
RECURSIVE TrimLeft(_)
TrimLeft(s) == IF Len(s) > 0 /\ IsSpace(s[1]) THEN TrimLeft(Tail(s)) ELSE s

RECURSIVE TrimRight(_)
TrimRight(s) ==
    IF Len(s) > 0 /\ IsSpace(s[Len(s)]) THEN TrimRight(Slice(s, 0, Len(s) - 1)) ELSE s

TrimSpace(s) == TrimRight(TrimLeft(s))

\* strconv.AppendInt(nil, n, 10)
RECURSIVE NatDigits(_)
NatDigits(n) ==
    LET c == <<"0", "1", "2", "3", "4", "5", "6", "7", "8", "9">>[(n % 10) + 1]
    IN  IF n < 10 THEN <<c>> ELSE NatDigits(n \div 10) \o <<c>>

AppendInt(n) == IF n < 0 THEN <<"-">> \o NatDigits(-n) ELSE NatDigits(n)

\* k digits of n, zero padded on the left
RECURSIVE PadDigits(_, _)
PadDigits(n, k) ==
    IF k = 0 THEN << >> ELSE PadDigits(n \div 10, k - 1) \o NatDigits(n % 10)

\* strconv.AppendFloat(b[:0], v, 'f', -1, 64): the shortest decimal that
\* gives v back
AppendFloat(v) ==
    LET d == Norm(v)
        p == Pow10(d.e)
        a == Abs(d.m)
        sign == IF d.m < 0 THEN <<"-">> ELSE << >>
    IN  IF d.e = 0 THEN sign \o NatDigits(a)
        ELSE sign \o NatDigits(a \div p) \o <<".">> \o PadDigits(a % p, d.e)

(***************************************************************************)
(* The format-string compiler (ParsePrinter, parseArg, parseCostFunction). *)
(***************************************************************************)
NoErr == "nil"

ErrEmpty == "required to be non-empty"

ErrUnexpectedEnd == "unexpected end"

ErrMissingVerb == "missing verb"

ErrInvalidVerb == "invalid verb"

ErrInvalidRatio == "invalid cost ratio"

\* costFunction{ratio, round}; isNil marks the nil *costFunction
costFunction(ratio, round) == [isNil |-> FALSE, ratio |-> ratio, round |-> round]

NilCostFn == [isNil |-> TRUE, ratio |-> DecInt(1), round |-> "X"]

CostRoundFirst(c, v) ==
    LET r == CASE c.round = "F" -> Floor(v)
               [] c.round = "C" -> Ceil(v)
               [] c.round = "R" -> Round(v)
               [] OTHER -> v
    IN  DecMul(r, c.ratio)

\* costFunction.Cost: c.round(v * c.ratio)
Cost(c, v) ==
    LET p == DecMul(v, c.ratio)
    IN  CASE c.round = "F" -> Floor(p)
          [] c.round = "C" -> Ceil(p)
          [] c.round = "R" -> Round(p)
          [] OTHER -> p

\* the predicate handed to strings.IndexFunc by parseCostFunction: a rune
\* that ends the ratio text
EndsRatio(r) == (RuneCode(r) <= RuneCode("0") \/ RuneCode(r) >= RuneCode("9")) /\ r # "."

\* the rounding letter and what parseCostFunction returns: fn with the
\* ratio and the rounding, or nil when nothing was read
parseRounding(s, i, advance, ratio) ==
    IF i # Len(s) /\ At(s, i) \in {"X", "F", "R", "C"}
    THEN [fn |-> costFunction(ratio, At(s, i)), advance |-> advance, err |-> NoErr]
    ELSE IF i # Len(s) /\ advance - 1 = 0
    THEN [fn |-> NilCostFn, advance |-> 0, err |-> NoErr]
    ELSE IF i # Len(s)
    THEN [fn |-> costFunction(ratio, "X"), advance |-> advance - 1, err |-> NoErr]
    ELSE [fn |-> costFunction(ratio, "X"), advance |-> advance, err |-> NoErr]

\* the ratio text s[:i], parsed when it is not empty; pf is what
\* strconv.ParseFloat makes of it
parseRatio(s, i, advance, pf) ==
    IF Slice(s, 0, i) # Str0 /\ pf.err
    THEN [fn |-> NilCostFn, advance |-> 0, err |-> ErrInvalidRatio]
    ELSE parseRounding(s, i, advance, IF Slice(s, 0, i) # Str0 THEN pf.v ELSE DecInt(1))

\* i and advance, from the index i0 that strings.IndexFunc returned
parseCostFunctionFrom(s, i0) ==
    IF i0 = -1
    THEN parseRatio(s, Len(s), Len(s), ParseFloat(s))
    ELSE parseRatio(s, i0, i0 + 1, ParseFloat(Slice(s, 0, i0)))

parseCostFunction(s) == parseCostFunctionFrom(s, IndexFunc(s, EndsRatio))

\* the operations of a Printer
Op(kind, text, cost) == [kind |-> kind, text |-> text, cost |-> cost, prefixCost |-> FALSE]

textOperationTwice(text) == Op("text", text \o text, NilCostFn)

textOperation(text) == Op("text", text, NilCostFn)

verticesCountOperation == Op("n", Str0, NilCostFn)

edgesCountOperation == Op("m", Str0, NilCostFn)

adjacencyMatrixOperation == Op("a", Str0, NilCostFn)

costsOperationAsVertices(fn) == Op("N", Str0, fn)

costsOperation(fn) == Op("w", Str0, fn)

verticesOperation(fn) == Op("N", Str0, fn)

edgesOperation(fn) == Op("M", Str0, fn)

NilOp == Op("nil", Str0, NilCostFn)

ArgErr(e) == [op |-> NilOp, advance |-> 0, err |-> e]

ArgOk(op, advance) == [op |-> op, advance |-> advance, err |-> NoErr]

\* the verb after the cost function r that parseCostFunction returned
parseVerb(text, r) ==
    IF r.err # NoErr THEN ArgErr(r.err)
    ELSE IF r.advance = Len(text) THEN ArgErr(ErrMissingVerb)
    ELSE CASE At(text, r.advance) = "w" ->
                ArgOk(costsOperation(IF r.fn.isNil
                                     THEN costFunction(DecInt(1), "X")
                                     ELSE r.fn), r.advance + 1)
           [] At(text, r.advance) = "N" -> ArgOk(verticesOperation(r.fn), r.advance + 1)
           [] At(text, r.advance) = "M" -> ArgOk(edgesOperation(r.fn), r.advance + 1)
           [] OTHER -> ArgErr(ErrInvalidVerb)

parseArg(text) ==
    IF text = Str0 THEN ArgErr(ErrUnexpectedEnd)
    ELSE CASE At(text, 0) = "%" -> ArgOk(textOperation(<<"%">>), 1)
           [] At(text, 0) = "n" -> ArgOk(verticesCountOperation, 1)
           [] At(text, 0) = "m" -> ArgOk(edgesCountOperation, 1)
           [] At(text, 0) = "a" -> ArgOk(adjacencyMatrixOperation, 1)
           [] OTHER -> parseVerb(text, parseCostFunction(text))

\* a *Printer: nil with an error, or the list of operations
NilPrinter(e) == [isNil |-> TRUE, ops |-> << >>, err |-> e]

\* the for loop of ParsePrinter: i is where the next "%" stands (the length
\* when there is none), r what parseArg makes of the text after it
RECURSIVE ParseLoop(_, _)
RECURSIVE ParseRound(_, _, _, _)
ParseRoundSkip(format, ops, i, r) ==
    IF i = Len(format) THEN [isNil |-> FALSE, ops |-> ops, err |-> NoErr]
    ELSE IF r.err # NoErr THEN NilPrinter(r.err)
    ELSE ParseLoop(Slice(format, i + r.advance + 2, Len(format)), Append(ops, r.op))

ParseRound(format, ops, i, r) ==
    IF i = Len(format) THEN [isNil |-> FALSE, ops |-> ops, err |-> NoErr]
    ELSE IF r.err # NoErr THEN NilPrinter(r.err)
    ELSE ParseLoop(Slice(format, i + r.advance + 1, Len(format)), Append(ops, r.op))

\* the text before the "%" becomes a textOperation
ParseText(format, ops, i) ==
    ParseRound(format,
               IF i > 0 THEN Append(ops, textOperation(Slice(format, 0, i))) ELSE ops,
               i,
               parseArg(Slice(format, i + 1, Len(format))))

ParseLoop(format, ops) ==
    IF IndexByte(format) = -1
    THEN ParseText(format, ops, Len(format))
    ELSE ParseText(format, ops, IndexByte(format))

ParsePrinter(format) ==
    IF format = Str0 THEN NilPrinter(ErrEmpty) ELSE ParseLoop(format, << >>)

(***************************************************************************)
(* The graph and the operations of the printer.                            *)
(***************************************************************************)
Node(id, cost) == [ID |-> id, Cost |-> cost]

Edge(src, dst, cost, directed) ==
    [Src |-> src, Dst |-> dst, Cost |-> cost, Directed |-> directed]

Graph(nodes, edges) == [Nodes |-> nodes, Edges |-> edges]

EmptyGraph == Graph(<< >>, << >>)

areAdjacentUndirected(g, a, b) ==
    \E k \in 1..Len(g.Edges) :
        LET e == g.Edges[k]
        IN  \/ (e.Src = a.ID /\ e.Dst = b.ID)
            \/ (e.Src = b.ID /\ e.Dst = a.ID)

\* the inner loop over g.Edges of adjacencyMatrixOperation
areAdjacent(g, a, b) ==
    \E k \in 1..Len(g.Edges) :
        LET e == g.Edges[k]
        IN  \/ (e.Src = a.ID /\ e.Dst = b.ID)
            \/ (~e.Directed /\ e.Src = b.ID /\ e.Dst = a.ID)

\* the bytes written for the cells ib.. of the row of node a
RECURSIVE matrixRow(_, _, _)
matrixRow(g, a, ib) ==
    IF ib >= Len(g.Nodes) THEN << >>
    ELSE LET b == At(g.Nodes, ib)
             sep == IF ib > 0 THEN <<" ">> ELSE << >>
             cell == IF a.ID = b.ID THEN <<"0">>
                     ELSE IF areAdjacent(g, a, b) THEN <<"1">> ELSE <<"0">>
         IN  sep \o cell \o matrixRow(g, a, ib + 1)

\* the bytes written for the rows ia..
RECURSIVE matrixRows(_, _)
matrixRows(g, ia) ==
    IF ia >= Len(g.Nodes) THEN << >>
    ELSE (IF ia > 0 THEN <<"\n">> ELSE << >>)
         \o matrixRow(g, At(g.Nodes, ia), 0) \o matrixRows(g, ia + 1)

\* writeCost / writeVertex / writeEdge of verticesOperation and edgesOperation
writeCostAlways(v, cost) ==
    (IF ~v.prefixCost THEN <<" ">> ELSE << >>) \o AppendFloat(Cost(v.cost, cost))

writeCost(v, cost) ==
    IF v.cost.isNil THEN << >>
    ELSE (IF ~v.prefixCost THEN <<" ">> ELSE << >>) \o AppendFloat(Cost(v.cost, cost))

writeVertex(v, nd) ==
    (IF v.prefixCost /\ ~v.cost.isNil THEN <<" ">> ELSE << >>) \o AppendInt(nd.ID)

writeEdgeReversed(v, e) ==
    (IF v.prefixCost /\ ~v.cost.isNil THEN <<" ">> ELSE << >>)
    \o AppendInt(e.Dst) \o <<" ">> \o AppendInt(e.Src)

writeEdge(v, e) ==
    (IF v.prefixCost /\ ~v.cost.isNil THEN <<" ">> ELSE << >>)
    \o AppendInt(e.Src) \o <<" ">> \o AppendInt(e.Dst)

RECURSIVE verticesApply(_, _, _)
verticesApply(v, g, i) ==
    IF i >= Len(g.Nodes) THEN << >>
    ELSE LET node == At(g.Nodes, i)
         IN  (IF i > 0 THEN <<"\n">> ELSE << >>)
             \o (IF v.prefixCost
                 THEN writeCost(v, node.Cost) \o writeVertex(v, node)
                 ELSE writeVertex(v, node) \o writeCost(v, node.Cost))
             \o verticesApply(v, g, i + 1)

RECURSIVE edgesApply(_, _, _)
edgesApply(v, g, i) ==
    IF i >= Len(g.Edges) THEN << >>
    ELSE LET e == At(g.Edges, i)
         IN  (IF i > 0 THEN <<"\n">> ELSE << >>)
             \o (IF v.prefixCost
                 THEN writeCost(v, e.Cost) \o writeEdge(v, e)
                 ELSE writeEdge(v, e) \o writeCost(v, e.Cost))
             \o edgesApply(v, g, i + 1)

RECURSIVE costsApply(_, _, _)
costsApply(c, g, i) ==
    IF i >= Len(g.Nodes) THEN << >>
    ELSE (IF i > 0 THEN <<" ">> ELSE << >>)
         \o AppendFloat(Cost(c.cost, At(g.Nodes, i).Cost))
         \o costsApply(c, g, i + 1)

\* operation.apply on a writer that never fails: the bytes written
apply(op, g) ==
    CASE op.kind = "text" -> op.text
      [] op.kind = "n" -> AppendInt(Len(g.Nodes))
      [] op.kind = "m" -> AppendInt(Len(g.Edges))
      [] op.kind = "a" -> matrixRows(g, 0)
      [] op.kind = "N" -> verticesApply(op, g, 0)
      [] op.kind = "M" -> edgesApply(op, g, 0)
      [] op.kind = "w" -> costsApply(op, g, 0)

\* the loop over p.ops of Printer.Print, from operation k on
RECURSIVE applyFrom(_, _, _)
applyFrom(ops, g, k) ==
    IF k > Len(ops) THEN << >> ELSE apply(ops[k], g) \o applyFrom(ops, g, k + 1)

(***************************************************************************)
(* The decoders.  A document is the stream of raw tokens that the          *)
(* tokenizer of encoding/xml yields for it: start elements with their      *)
(* attributes, character data, end elements, and the end of the stream.    *)
(***************************************************************************)
Tok(kind, name, text) ==
    [kind |-> kind, name |-> name, text |-> text,
     hasId |-> FALSE, id |-> Str0, hasDirected |-> FALSE, directed |-> Str0]

StartNode(hasId, id) == [Tok("start", "node", Str0) EXCEPT !.hasId = hasId, !.id = id]

StartEdge(hasDirected, directed) ==
    [Tok("start", "edge", Str0) EXCEPT !.hasDirected = hasDirected, !.directed = directed]

IsYesAnyCase(value) == value \in {<<"y", "e", "s">>, <<"Y", "e", "s">>}

\* directed.Value == "yes" of Edge.unmarshalXML, e.Attrs["directed"] == "yes"
\* of FromXMLNoStd
IsYes(value) == value = <<"y", "e", "s">>

ZeroNode == Node(0, DecInt(0))

ZeroEdge == Edge(0, 0, DecInt(0), FALSE)

\* FromXML: where it stands (in its own loop, in Node.unmarshalXML, in
\* Edge.unmarshalXML, or returned), its locals and those of the unmarshalXML
\* that runs, and what it returned
FxInit ==
    [pc |-> "top", g |-> EmptyGraph, node |-> ZeroNode, edge |-> ZeroEdge, depth |-> 0,
     inCost |-> FALSE, inSrc |-> FALSE, inDst |-> FALSE,
     err |-> NoErr, result |-> EmptyGraph]

FxReturnPartial(f, g, e) ==
    [FxInit EXCEPT !.pc = "done", !.g = f.g, !.err = e, !.result = f.g]

\* return g, err
FxReturn(f, g, e) ==
    [FxInit EXCEPT !.pc = "done", !.g = f.g, !.err = e, !.result = g]

\* the loop of FromXML, and the head of Node.unmarshalXML and of
\* Edge.unmarshalXML, which work on the start element itself
FxTop(f, t) ==
    CASE t.kind = "eof" -> FxReturn(f, f.g, NoErr)
      [] t.kind = "start" /\ t.name = "node" ->
            IF ~t.hasId THEN FxReturn(f, EmptyGraph, "node has no id attribute")
            ELSE IF Atoi(t.id).err THEN FxReturn(f, EmptyGraph, "node has invalid id value")
            ELSE [f EXCEPT !.pc = "node", !.node = Node(Atoi(t.id).v, DecInt(0))]
      [] t.kind = "start" /\ t.name = "edge" ->
            [f EXCEPT !.pc = "edge",
                      !.edge = Edge(0, 0, DecInt(0), t.hasDirected /\ IsYes(t.directed))]
      [] OTHER -> f

\* back in the loop of FromXML after an unmarshalXML returned nil
FxAppended(f, g) == [FxInit EXCEPT !.g = g]

\* one round of the loop of Node.unmarshalXML
FxNode(f, t) ==
    CASE t.kind = "eof" -> FxReturn(f, EmptyGraph, "EOF")
      [] t.kind = "start" ->
            [f EXCEPT !.depth = @ + 1, !.inCost = (t.name = "cost" /\ f.depth + 1 = 1)]
      [] t.kind = "text" ->
            IF ~f.inCost THEN f
            ELSE IF ParseFloat(TrimSpace(t.text)).err
            THEN FxReturn(f, EmptyGraph, "node has invalid cost")
            ELSE [f EXCEPT !.node.Cost = ParseFloat(TrimSpace(t.text)).v, !.inCost = FALSE]
      [] t.kind = "end" ->
            IF t.name = "node" /\ f.depth - 1 = -1
            THEN FxAppended(f, Graph(Append(f.g.Nodes, f.node), f.g.Edges))
            ELSE [f EXCEPT !.depth = @ - 1]

\* one round of the loop of Edge.unmarshalXML
FxEdge(f, t) ==
    CASE t.kind = "eof" -> FxReturn(f, EmptyGraph, "EOF")
      [] t.kind = "start" ->
            IF f.depth + 1 > 1 THEN [f EXCEPT !.depth = @ + 1]
            ELSE [f EXCEPT !.depth = @ + 1, !.inCost = (t.name = "cost"),
                           !.inSrc = (t.name = "source"), !.inDst = (t.name = "target")]
      [] t.kind = "text" ->
            IF f.inCost
            THEN IF ParseFloat(TrimSpace(t.text)).err
                 THEN FxReturn(f, EmptyGraph, "edge has invalid cost")
                 ELSE [f EXCEPT !.edge.Cost = ParseFloat(TrimSpace(t.text)).v, !.inCost = FALSE]
            ELSE IF f.inSrc \/ f.inDst
            THEN IF Atoi(TrimSpace(t.text)).err
                 THEN FxReturn(f, EmptyGraph, "edge has invalid source or target")
                 ELSE IF f.inSrc
                 THEN [f EXCEPT !.edge.Src = Atoi(TrimSpace(t.text)).v, !.inSrc = FALSE]
                 ELSE [f EXCEPT !.edge.Dst = Atoi(TrimSpace(t.text)).v, !.inDst = FALSE]
            ELSE f
      [] t.kind = "end" ->
            IF t.name = "edge" /\ f.depth - 1 = -1
            THEN FxAppended(f, Graph(f.g.Nodes, Append(f.g.Edges, f.edge)))
            ELSE [f EXCEPT !.depth = @ - 1]

\* FromXML takes the next raw token
FromXML(f, t) ==
    CASE f.pc = "top" -> FxTop(f, t)
      [] f.pc = "node" -> FxNode(f, t)
      [] f.pc = "edge" -> FxEdge(f, t)
      [] OTHER -> f

\* an element that the stream parser of FromXMLNoStd hands out: its name and
\* attributes, and of its children the first of each name (getChild reads no
\* other), with the InnerText; while the parser builds it, the child that is
\* open (name, text so far, whether it has children of its own) and the depth
NoChild == [has |-> FALSE, text |-> Str0]

NoElement ==
    [open |-> FALSE, name |-> "", hasId |-> FALSE, id |-> Str0,
     hasDirected |-> FALSE, directed |-> Str0, d |-> 0,
     cost |-> NoChild, source |-> NoChild, target |-> NoChild,
     child |-> "", text |-> Str0, kids |-> FALSE]

NsInit == [pc |-> "run", g |-> EmptyGraph, el |-> NoElement, err |-> NoErr, result |-> EmptyGraph]

\* return g, err
NsReturn(n, g, e) == [NsInit EXCEPT !.pc = "done", !.g = n.g, !.err = e, !.result = g]

NsAppended(n, g) == [NsInit EXCEPT !.g = g]

\* getChild reads the first cost, source and target child of an element: the
\* text of any other child is never looked at, and is not kept
IsRead(e, name) ==
    \/ name = "cost" /\ ~e.cost.has
    \/ name = "source" /\ ~e.source.has
    \/ name = "target" /\ ~e.target.has

\* the element e with the child that is open closed and filed under its name
\* (the first of a name is the one getChild finds); the InnerText of an
\* element with children of its own stays empty, so its text is not kept
CloseChild(e) ==
    LET c == [has |-> TRUE, text |-> IF e.kids THEN Str0 ELSE e.text]
        e1 == [e EXCEPT !.child = "", !.text = Str0, !.kids = FALSE]
    IN  CASE e.child = "cost" /\ ~e.cost.has -> [e1 EXCEPT !.cost = c]
          [] e.child = "source" /\ ~e.source.has -> [e1 EXCEPT !.source = c]
          [] e.child = "target" /\ ~e.target.has -> [e1 EXCEPT !.target = c]
          [] OTHER -> e1

\* the body of the loop of FromXMLNoStd, for the element e of the stream
NsHandle(n, e) ==
    IF e.name = "node"
    THEN LET id == Atoi(IF e.hasId THEN e.id ELSE Str0)
             cost == ParseFloat(e.cost.text)
         IN  IF id.err THEN NsReturn(n, EmptyGraph, "node has invalid id")
             ELSE IF e.cost.has /\ cost.err THEN NsReturn(n, EmptyGraph, "node has invalid cost")
             ELSE NsAppended(n, Graph(Append(n.g.Nodes,
                                             Node(id.v, IF e.cost.has THEN cost.v ELSE DecInt(0))),
                                      n.g.Edges))
    ELSE LET src == Atoi(e.source.text)
             dst == Atoi(e.target.text)
             cost == ParseFloat(e.cost.text)
         IN  IF ~e.source.has \/ ~e.target.has
             THEN NsReturn(n, EmptyGraph, "edge does not have source or target")
             ELSE IF src.err \/ dst.err
             THEN NsReturn(n, EmptyGraph, "edge has invalid source or target")
             ELSE IF e.cost.has /\ cost.err THEN NsReturn(n, EmptyGraph, "edge has invalid cost")
             ELSE NsAppended(n, Graph(n.g.Nodes,
                                      Append(n.g.Edges,
                                             Edge(src.v, dst.v,
                                                  IF e.cost.has THEN cost.v ELSE DecInt(0),
                                                  IsYes(IF e.hasDirected THEN e.directed
                                                        ELSE Str0)))))

\* FromXMLNoStd takes the next token: xmlparser.NewXMLParser(r, "node", "edge")
\* builds the node and edge elements, p.Stream() hands each out at its end tag
\* and the body of the loop runs on it.  When the stream ends inside an element
\* the parser either hands out what it has built of it (partial) or nothing;
\* when it ends outside the loop is over and g is returned.
FromXMLNoStd(n, t, partial) ==
    IF n.pc # "run" THEN n
    ELSE IF ~n.el.open
    THEN CASE t.kind = "eof" -> NsReturn(n, n.g, NoErr)
           [] t.kind = "start" /\ t.name \in {"node", "edge"} ->
                 [n EXCEPT !.el = [NoElement EXCEPT !.open = TRUE, !.name = t.name,
                                                    !.hasId = t.hasId, !.id = t.id,
                                                    !.hasDirected = t.hasDirected,
                                                    !.directed = t.directed]]
           [] OTHER -> n
    ELSE CASE t.kind = "eof" ->
                 LET e == IF n.el.d >= 1 THEN CloseChild([n.el EXCEPT !.kids = TRUE]) ELSE n.el
                     h == NsHandle(n, e)
                 IN  IF partial
                     THEN IF h.pc = "done" THEN h ELSE NsReturn(h, h.g, NoErr)
                     ELSE NsReturn(n, n.g, NoErr)
           [] t.kind = "start" ->
                 IF n.el.d = 0
                 THEN [n EXCEPT !.el.d = 1, !.el.child = t.name, !.el.text = Str0,
                                !.el.kids = FALSE]
                 ELSE [n EXCEPT !.el.d = @ + 1, !.el.kids = TRUE, !.el.text = Str0]
           [] t.kind = "text" ->
                 IF n.el.d = 1 /\ ~n.el.kids /\ IsRead(n.el, n.el.child)
                 THEN [n EXCEPT !.el.text = @ \o t.text]
                 ELSE n
           [] t.kind = "end" ->
                 IF n.el.d = 0 THEN NsHandle(n, n.el)
                 ELSE IF n.el.d = 1 THEN [n EXCEPT !.el = [CloseChild(n.el) EXCEPT !.d = 0]]
                 ELSE [n EXCEPT !.el.d = @ - 1]

(***************************************************************************)
(* The document.  Its tokens are drawn one at a time, well nested under    *)
(* one root element, graph; the stream may end anywhere.  Of what was read *)
(* the state keeps the open elements and what the properties speak of: the *)
(* node or edge element that is open with its children at depth 1, how     *)
(* many node and edge elements stood right under the root (top), for each  *)
(* edge element whether it has the attribute directed="yes" (yes), and     *)
(* whether a required field was missing or a number malformed so far.      *)
(***************************************************************************)
NoCur ==
    [kind |-> "", base |-> 0, hasSrc |-> FALSE, hasDst |-> FALSE,
     child |-> "", text |-> Str0, kids |-> FALSE]

DocInit ==
    [stack |-> << >>, begun |-> FALSE, eof |-> FALSE, lastText |-> FALSE, elems |-> 0,
     edges |-> 0, top |-> 0, yes |-> << >>,
     cur |-> NoCur, missingField |-> FALSE, badNumber |-> FALSE, truncated |-> FALSE]

IdTexts == {<<"1">>, <<"x">>, Str0}

DirectedTexts == {<<"y", "e", "s">>, <<"Y", "e", "s">>}

Texts == {<<"1">>, <<"1", ".", "5">>, <<" ">>}

\* the depth of the open elements inside the open node or edge element
Rel(d) == Len(d.stack) - d.cur.base

\* the child at depth 1 that just closed holds a malformed number
BadChild(d, name) ==
    /\ ~d.cur.kids
    /\ \/ name = "cost" /\ ParseFloat(TrimSpace(d.cur.text)).err
       \/ d.cur.kind = "edge" /\ name \in {"source", "target"} /\ Atoi(TrimSpace(d.cur.text)).err

DocStep(d, t) ==
    CASE t.kind = "eof" -> [d EXCEPT !.eof = TRUE, !.truncated = (d.stack # << >>)]
      [] t.kind = "text" ->
            [d EXCEPT !.lastText = TRUE,
                      !.cur.text = IF d.cur.kind # "" /\ Rel(d) = 1 /\ ~d.cur.kids
                                   THEN @ \o t.text ELSE @]
      [] t.kind = "start" ->
            LET d1 == [d EXCEPT !.stack = Append(@, t.name), !.begun = TRUE, !.lastText = FALSE]
            IN  IF d.cur.kind = "" /\ t.name \in {"node", "edge"}
                THEN [d1 EXCEPT !.elems = @ + 1,
                                !.edges = IF t.name = "edge" THEN @ + 1 ELSE @,
                                !.top = IF Len(d.stack) = 1 THEN @ + 1 ELSE @,
                                !.yes = IF t.name = "edge"
                                        THEN Append(@, t.hasDirected /\ t.directed = <<"y", "e", "s">>)
                                        ELSE @,
                                !.cur = [NoCur EXCEPT !.kind = t.name, !.base = Len(d1.stack)],
                                !.missingField = @ \/ (t.name = "node" /\ ~t.hasId),
                                !.badNumber = @ \/ (t.name = "node" /\ t.hasId /\ Atoi(t.id).err)]
                ELSE IF d.cur.kind # "" /\ Rel(d) = 0
                THEN [d1 EXCEPT !.cur.child = t.name, !.cur.text = Str0, !.cur.kids = FALSE]
                ELSE IF d.cur.kind # "" /\ Rel(d) = 1
                THEN [d1 EXCEPT !.cur.kids = TRUE, !.cur.text = Str0]
                ELSE d1
      [] t.kind = "end" ->
            LET d1 == [d EXCEPT !.stack = Slice(@, 0, Len(@) - 1), !.lastText = FALSE]
            IN  IF d.cur.kind # "" /\ Rel(d) = 0
                THEN [d1 EXCEPT !.cur = NoCur,
                                !.missingField = @ \/ (d.cur.kind = "edge"
                                                       /\ (~d.cur.hasSrc \/ ~d.cur.hasDst))]
                ELSE IF d.cur.kind # "" /\ Rel(d) = 1
                THEN [d1 EXCEPT !.cur.hasSrc = @ \/ t.name = "source",
                                !.cur.hasDst = @ \/ t.name = "target",
                                !.cur.child = "", !.cur.text = Str0, !.cur.kids = FALSE,
                                !.badNumber = @ \/ BadChild(d, t.name)]
                ELSE d1

\* the names of the elements inside a node or edge element: at depth 1 cost
\* and, in an edge, source and target, and an element of another name; below
\* that a further cost or an element of another name
ChildNames(d) ==
    IF Rel(d) > 0 THEN {"cost", "meta"}
    ELSE IF d.cur.kind = "edge" THEN {"cost", "source", "target", "meta"}
    ELSE {"cost", "meta"}

\* the start elements that may come next
StartTokens(d) ==
    IF ~d.begun THEN {Tok("start", "graph", Str0)}
    ELSE IF d.stack = << >> \/ Len(d.stack) >= MaxDepth THEN {}
    ELSE IF d.cur.kind # ""
    THEN {Tok("start", name, Str0) : name \in ChildNames(d)}
    ELSE {Tok("start", "meta", Str0)}
         \cup (IF d.elems >= MaxElems THEN {}
               ELSE {StartNode(TRUE, id) : id \in IdTexts} \cup {StartNode(FALSE, Str0)})
         \cup (IF d.elems >= MaxElems \/ d.edges >= MaxDocEdges THEN {}
               ELSE {StartEdge(TRUE, v) : v \in DirectedTexts} \cup {StartEdge(FALSE, Str0)})

(***************************************************************************)
(* The state: one Printer built from a format string, its pool of          *)
(* bufio.Writer, and the Print calls that run on it, each with a graph and *)
(* a sink of its own.                                                      *)
(***************************************************************************)
VARIABLES
    format,     \* the format string handed to ParsePrinter
    printer,    \* what ParsePrinter returned, Unparsed before the call
    pool,       \* p.bwp: the bufio.Writer that are in the pool
    bufs,       \* the bufio.Writer made by the pool's New
    sinks,      \* the io.Writer handed to each Print call
    calls,      \* the Print calls
    doc,        \* the document that is read: how far, and what it has held
    fx,         \* FromXML on that document
    ns,         \* FromXMLNoStd on that document
    ctx,        \* the contexts of CLI.Run: sctx (signals) and its child c.ctx
    ch,         \* c.ch, the channel of paths
    sp,         \* the goroutine of sendPaths
    wk,         \* the goroutines of worker
    op,         \* the goroutine of outputProgress
    gr,         \* c.gr, the errgroup
    cg,         \* the goroutine of CLI.Run that prints how the run ended
    run,        \* CLI.Run itself
    files       \* per path: how often handed out, processed, converted

pvars == <<format, printer, pool, bufs, sinks, calls>>

dvars == <<doc, fx, ns>>

cvars == <<ctx, ch, sp, wk, op, gr, cg, run, files>>

vars == <<format, printer, pool, bufs, sinks, calls, doc, fx, ns,
          ctx, ch, sp, wk, op, gr, cg, run, files>>

Calls == 1..MaxCalls

\* no document is read
NoDocument == doc = DocInit /\ fx = FxInit /\ ns = NsInit

\* c.filepaths, by index
Paths == 1..MaxPaths

\* workers := runtime.GOMAXPROCS(-1); if l < workers { workers = l }
NumWorkers == IF MaxPaths < MaxProcs THEN MaxPaths ELSE MaxProcs

Workers == 1..NumWorkers

\* a goroutine of worker: where it is, the path it holds (0: none), what it
\* returned
Worker(pc, p, err) == [pc |-> pc, p |-> p, err |-> err]

\* the orchestrator as CLI.Run has started it: no context is cancelled, every
\* goroutine is at the select of its loop, sendPaths at the first path
CtxInit == [sig |-> FALSE, done |-> FALSE]

ChInit == [closed |-> FALSE]

SpInit == [pc |-> "select", i |-> 1]

WkInit == [w \in Workers |-> Worker("select", 0, NoErr)]

OpInit == [pc |-> "select", done |-> 0]

GrInit == [err |-> NoErr, waited |-> FALSE]

\* the goroutine started at the head of Run: at its select, nothing printed
CgInit == [pc |-> "select", branch |-> "", msg |-> ""]

\* Run has started the goroutines and stands in c.gr.Wait()
RunInit == [pc |-> "wait", code |-> -1, msg |-> ""]

FilesInit == [p \in Paths |-> [handed |-> 0, calls |-> 0, converted |-> 0]]

\* no run of the command line goes on
NoRun ==
    /\ ctx = CtxInit
    /\ ch = ChInit
    /\ sp = SpInit
    /\ wk = WkInit
    /\ op = OpInit
    /\ gr = GrInit
    /\ cg = CgInit
    /\ run = RunInit
    /\ files = FilesInit

Unparsed == [isNil |-> TRUE, ops |-> << >>, err |-> "unparsed"]

\* a bufio.Writer: made by New or not yet, the writer it was Reset to (0: nil),
\* and the bytes it buffers
NewBuf == [made |-> FALSE, dst |-> 0, data |-> << >>]

\* wr = 0: the sink itself is the writer; wr > 0: the pooled bufio.Writer wr
Call(pc, g) == [pc |-> pc, g |-> g, wr |-> 0, k |-> 1, n |-> 0, err |-> NoErr]

\* the io.Writer of a call: a *strings.Builder ("builder"), or a writer behind
\* a bufio.Writer whose Write never fails ("file") or may fail ("faulty")
Sink(kind) == [kind |-> kind, data |-> << >>]

SinkKinds == {"builder", "file", "faulty"}

\* all strings over an alphabet, up to a length
RECURSIVE StringsUpTo(_, _)
StringsUpTo(A, n) ==
    IF n = 0 THEN {<< >>}
    ELSE LET S == StringsUpTo(A, n - 1)
         IN  S \cup {Append(s, c) : s \in {t \in S : Len(t) = n - 1}, c \in A}

FormatChars == {"%", "N", "M", "w", "a", "n", "0", "5", ".", "X", "R", "z"}

\* the ratios that the documentation of ParsePrinter and of the -format flag
\* gives as valid, and templates of the test
DocFormats ==
    { <<"%", "1", "0", "N">>, <<"%", "0", ".", "6", "N">>, <<"%", "3", ".", "4", "2", "w">>,
      <<"%", ".", "2", "3", "M">>, <<"%", "5", "6", "w">>, <<"%", "2", "R", "M">>,
      <<"%", ".", "5", "F", "w">>, <<"%", "1", ".", "5", "C", "N">>, <<"%", "m">>,
      <<"%", ".", "4", "z", "N">>, <<"%", "1", ".", "2", ".", "N">> }

Formats == StringsUpTo(FormatChars, MaxFormatLen) \cup DocFormats

\* 1.5, 0.25, 0.5, 3: float64 holds them, and their products with the ratios
\* of the formats above that compile, exactly
SampleGraph ==
    Graph(<<Node(1, Dec(15, 1)), Node(2, Dec(25, 2))>>,
          <<Edge(1, 2, Dec(5, 1), FALSE), Edge(2, 1, DecInt(3), TRUE)>>)

FormatGraphs == {EmptyGraph, SampleGraph}

InitFormat ==
    /\ NoDocument
    /\ NoRun
    /\ format \in Formats
    /\ printer = Unparsed
    /\ pool = {}
    /\ bufs = [b \in Calls |-> NewBuf]
    /\ \E kind \in SinkKinds : sinks = [c \in Calls |-> Sink(kind)]
    /\ \E g \in FormatGraphs :
           calls = [c \in Calls |-> IF c = 1 THEN Call("ready", g) ELSE Call("off", EmptyGraph)]

\* the graphs of the adjacency matrix: ids 1 to 3 in any order, repeated
\* or left out, edges between these ids (an endpoint that no node has is a
\* dangling reference), directed or not, with two costs
NodeIds == {1, 2, 3}

RECURSIVE SeqsUpTo(_, _)
SeqsUpTo(A, n) ==
    IF n = 0 THEN {<< >>}
    ELSE LET S == SeqsUpTo(A, n - 1)
         IN  S \cup {Append(s, c) : s \in {t \in S : Len(t) = n - 1}, c \in A}

MatrixNodes == {Node(id, DecInt(0)) : id \in NodeIds}

MatrixEdges ==
    {Edge(src, dst, cost, directed) :
        src \in NodeIds, dst \in NodeIds, cost \in {DecInt(0), Dec(15, 1)},
        directed \in BOOLEAN}

MatrixGraphs ==
    {Graph(nodes, edges) : nodes \in SeqsUpTo(MatrixNodes, MaxNodes),
                           edges \in SeqsUpTo(MatrixEdges, MaxEdges)}

MatrixFormat == <<"%", "a">>

InitMatrix ==
    /\ NoDocument
    /\ NoRun
    /\ format = MatrixFormat
    /\ printer = Unparsed
    /\ pool = {}
    /\ bufs = [b \in Calls |-> NewBuf]
    /\ \E kind \in SinkKinds :
           /\ sinks = [c \in Calls |-> Sink(kind)]
           /\ \E g \in (IF kind = "builder" THEN MatrixGraphs ELSE FormatGraphs) :
                  calls = [c \in Calls |->
                              IF c = 1 THEN Call("ready", g) ELSE Call("off", EmptyGraph)]

\* ParsePrinter(format)
ParsePrinterCall ==
    /\ printer = Unparsed
    /\ printer' = ParsePrinter(format)
    /\ UNCHANGED <<format, pool, bufs, sinks, calls>>
    /\ UNCHANGED dvars
    /\ UNCHANGED cvars

\* what the pool's New returns: the next bufio.Writer not made yet
NewFromPool == {b \in Calls : ~bufs[b].made /\ \A a \in 1..(b - 1) : bufs[a].made}

\* Printer.getWriter, with its deferred p.bwp.Put(bw): a *strings.Builder (or
\* *bytes.Buffer) is the writer itself; for any other io.Writer a bufio.Writer
\* is taken from the pool (sync.Pool.Get: one of the pool, or a new one), Reset
\* to w, and put back into the pool as getWriter returns
getWriter(c) ==
    /\ ~printer.isNil
    /\ calls[c].pc = "ready"
    /\ IF sinks[c].kind = "builder"
       THEN /\ calls' = [calls EXCEPT ![c].pc = "apply", ![c].wr = 0]
            /\ UNCHANGED <<pool, bufs>>
       ELSE \E b \in pool \cup NewFromPool :
                /\ bufs' = [bufs EXCEPT ![b] = [made |-> TRUE, dst |-> c, data |-> << >>]]
                /\ pool' = pool \cup {b}
                /\ calls' = [calls EXCEPT ![c].pc = "apply", ![c].wr = b]
    /\ UNCHANGED <<format, printer, sinks>>
    /\ UNCHANGED dvars
    /\ UNCHANGED cvars

\* the writer wr of call c takes bytes
WriteTo(c, bytes) ==
    IF calls[c].wr = 0
    THEN /\ sinks' = [sinks EXCEPT ![c].data = @ \o bytes]
         /\ UNCHANGED bufs
    ELSE /\ bufs' = [bufs EXCEPT ![calls[c].wr].data = @ \o bytes]
         /\ UNCHANGED sinks

\* one round of the loop of Printer.Print: op.apply(wr, g) and n += m
PrintApply(c) ==
    /\ calls[c].pc = "apply"
    /\ calls[c].k <= Len(printer.ops)
    /\ LET bytes == apply(printer.ops[calls[c].k], calls[c].g)
       IN  /\ WriteTo(c, bytes)
           /\ calls' = [calls EXCEPT ![c].k = @ + 1, ![c].n = @ + Len(bytes)]
    /\ UNCHANGED <<format, printer, pool>>
    /\ UNCHANGED dvars
    /\ UNCHANGED cvars

\* a round in which the write fails, after m bytes: the bufio.Writer of the
\* call hands on the error of the writer it was Reset to; Print returns n, err
PrintApplyFails(c) ==
    /\ calls[c].pc = "apply"
    /\ calls[c].k <= Len(printer.ops)
    /\ calls[c].wr # 0
    /\ sinks[bufs[calls[c].wr].dst].kind = "faulty"
    /\ LET bytes == apply(printer.ops[calls[c].k], calls[c].g)
       IN  \E m \in 0..(Len(bytes) - 1) :
               /\ WriteTo(c, Slice(bytes, 0, m))
               /\ calls' = [calls EXCEPT ![c].pc = "done", ![c].n = @ + m,
                                         ![c].err = "write error"]
    /\ UNCHANGED <<format, printer, pool>>
    /\ UNCHANGED dvars
    /\ UNCHANGED cvars

\* return n, flush(wr): a bufio.Writer writes what it buffers to the writer
\* it was Reset to; a strings.Builder has no Flush
PrintFlush(c) ==
    /\ calls[c].pc = "apply"
    /\ calls[c].k > Len(printer.ops)
    /\ IF calls[c].wr = 0
       THEN /\ calls' = [calls EXCEPT ![c].pc = "done"]
            /\ UNCHANGED <<bufs, sinks>>
       ELSE LET b == calls[c].wr
            IN  \/ /\ sinks' = [sinks EXCEPT ![bufs[b].dst].data = @ \o bufs[b].data]
                   /\ bufs' = [bufs EXCEPT ![b].data = << >>]
                   /\ calls' = [calls EXCEPT ![c].pc = "done"]
                \/ /\ bufs[b].data # << >>
                   /\ sinks[bufs[b].dst].kind = "faulty"
                   /\ calls' = [calls EXCEPT ![c].pc = "done", ![c].err = "write error"]
                   /\ UNCHANGED <<bufs, sinks>>
    /\ UNCHANGED <<format, printer, pool>>
    /\ UNCHANGED dvars
    /\ UNCHANGED cvars

PrinterNext ==
    \/ ParsePrinterCall
    \/ \E c \in Calls : getWriter(c)
    \/ \E c \in Calls : PrintApply(c)
    \/ \E c \in Calls : PrintApplyFails(c)
    \/ \E c \in Calls : PrintFlush(c)

SpecFormat == InitFormat /\ [][PrinterNext]_vars

SpecMatrix == InitMatrix /\ [][PrinterNext]_vars

\* concurrent Print calls on one Printer, each with a graph and a sink of its
\* own that is none of *bytes.Buffer, *strings.Builder, *bufio.Writer, and
\* that fails or never does
PoolFormat == <<"%", "n", "%", "m">>

InitPool ==
    /\ NoDocument
    /\ NoRun
    /\ format = PoolFormat
    /\ printer = Unparsed
    /\ pool = {}
    /\ bufs = [b \in Calls |-> NewBuf]
    /\ sinks \in [Calls -> {Sink("file"), Sink("faulty")}]
    /\ calls \in [Calls -> {Call("ready", g) : g \in FormatGraphs}]

SpecPool == InitPool /\ [][PrinterNext]_vars

\* the cost functions: no ratio, 2 or .5 (float64 doubles and halves without
\* error), no rounding letter or one of the four, before each of w, N and M;
\* the graph has the edge costs of TestParsePrinter and a negative node cost
CostFormats ==
    {<<"%">> \o r \o m \o <<v>> :
        r \in {<< >>, <<"2">>, <<".", "5">>},
        m \in {<< >>, <<"X">>, <<"F">>, <<"R">>, <<"C">>},
        v \in {"w", "N", "M"}}

CostGraph ==
    Graph(<<Node(1, Dec(3, 1)), Node(2, Dec(-25, 1)), Node(3, Dec(14, 1))>>,
          <<Edge(1, 2, Dec(3, 1), FALSE), Edge(1, 3, Dec(1, 1), FALSE),
            Edge(2, 3, Dec(14, 1), FALSE)>>)

InitCost ==
    /\ NoDocument
    /\ NoRun
    /\ format \in CostFormats
    /\ printer = Unparsed
    /\ pool = {}
    /\ bufs = [b \in Calls |-> NewBuf]
    /\ \E kind \in SinkKinds : sinks = [c \in Calls |-> Sink(kind)]
    /\ calls = [c \in Calls |-> IF c = 1 THEN Call("ready", CostGraph)
                                         ELSE Call("off", EmptyGraph)]

SpecCost == InitCost /\ [][PrinterNext]_vars

(***************************************************************************)
(* Reading a document with both decoders.                                  *)
(***************************************************************************)
\* reading goes on until the stream has ended or both decoders have returned
Reading == ~doc.eof /\ (fx.pc # "done" \/ ns.pc # "done")

\* the token t is read: each decoder that still runs takes it
Deliver(t) ==
    /\ doc' = DocStep(doc, t)
    /\ fx' = FromXML(fx, t)
    /\ \E partial \in BOOLEAN : ns' = FromXMLNoStd(ns, t, partial)
    /\ UNCHANGED pvars
    /\ UNCHANGED cvars

ReadStartElement ==
    /\ Reading
    /\ \E t \in StartTokens(doc) : Deliver(t)

ReadCharData ==
    /\ Reading
    /\ doc.cur.kind # ""
    /\ ~doc.lastText
    /\ \E s \in Texts : Deliver(Tok("text", "", s))

ReadEndElement ==
    /\ Reading
    /\ doc.stack # << >>
    /\ Deliver(Tok("end", doc.stack[Len(doc.stack)], Str0))

ReadEOF ==
    /\ Reading
    /\ Deliver(Tok("eof", "", Str0))

InitDecode ==
    /\ format = Str0
    /\ printer = Unparsed
    /\ pool = {}
    /\ bufs = [b \in Calls |-> NewBuf]
    /\ sinks = [c \in Calls |-> Sink("builder")]
    /\ calls = [c \in Calls |-> Call("off", EmptyGraph)]
    /\ NoDocument
    /\ NoRun

DecodeNext ==
    \/ ReadStartElement
    \/ ReadCharData
    \/ ReadEndElement
    \/ ReadEOF

SpecDecode == InitDecode /\ [][DecodeNext]_vars

(***************************************************************************)
(* The orchestrator of the command line: CLI.Run starts sendPaths, the     *)
(* workers and outputProgress in an errgroup whose context is a child of   *)
(* the context that the signals cancel.  The channels c.ch and c.progress  *)
(* have no buffer: a send and a receive happen together, in one step.  A   *)
(* goroutine that enters a select once Done is closed finds Done ready and *)
(* no peer parked on the other channel (the close has already woken every  *)
(* parked select by its Done case), so no such step happens once c.ctx is  *)
(* cancelled.                                                              *)
(***************************************************************************)
\* what Run and its goroutine print at the end
MsgSuccess == "All files were successfully converted!"

MsgStopped == "Conversion stopped forcefully, exiting..."

MsgFailed == "Failed to process files"

\* cancel of the errgroup's context
Cancel(c) == [c EXCEPT !.done = TRUE]

SendPathAgain(w) ==
    /\ sp.pc = "select"
    /\ sp.i <= MaxPaths
    /\ wk[w].pc = "select"
    /\ ~ch.closed
    /\ ~ctx.done
    /\ wk' = [wk EXCEPT ![w] = Worker("call", sp.i, NoErr)]
    /\ files' = [files EXCEPT ![sp.i].handed = @ + 1]
    /\ UNCHANGED <<ctx, ch, sp, op, gr>>
    /\ UNCHANGED <<cg, run>>
    /\ UNCHANGED pvars
    /\ UNCHANGED dvars

\* sendPaths, case c.ch <- p, and worker w, case p, ok := <-c.ch with ok
SendPath(w) ==
    /\ sp.pc = "select"
    /\ sp.i <= MaxPaths
    /\ wk[w].pc = "select"
    /\ ~ch.closed
    /\ ~ctx.done
    /\ sp' = [sp EXCEPT !.i = @ + 1]
    /\ wk' = [wk EXCEPT ![w] = Worker("call", sp.i, NoErr)]
    /\ files' = [files EXCEPT ![sp.i].handed = @ + 1]
    /\ UNCHANGED <<ctx, ch, op, gr>>
    /\ UNCHANGED <<cg, run>>
    /\ UNCHANGED pvars
    /\ UNCHANGED dvars

SendPathsReturnNoClose ==
    /\ sp.pc = "select"
    /\ sp.i > MaxPaths \/ ctx.done
    /\ sp' = [sp EXCEPT !.pc = "returned"]
    /\ UNCHANGED <<ctx, ch, wk, op, gr, cg, run, files>>
    /\ UNCHANGED pvars
    /\ UNCHANGED dvars

\* sendPaths returns, at the end of the range or by case <-c.ctx.Done(); the
\* deferred close(c.ch) runs
SendPathsReturn ==
    /\ sp.pc = "select"
    /\ sp.i > MaxPaths \/ ctx.done
    /\ sp' = [sp EXCEPT !.pc = "returned"]
    /\ ch' = [ch EXCEPT !.closed = TRUE]
    /\ UNCHANGED <<ctx, wk, op, gr>>
    /\ UNCHANGED <<cg, run, files>>
    /\ UNCHANGED pvars
    /\ UNCHANGED dvars

\* worker, case p, ok := <-c.ch with !ok, or case <-c.ctx.Done(): return nil
WorkerReturn(w) ==
    /\ wk[w].pc = "select"
    /\ ch.closed \/ ctx.done
    /\ wk' = [wk EXCEPT ![w] = Worker("returned", 0, NoErr)]
    /\ UNCHANGED <<ctx, ch, sp, op, gr>>
    /\ UNCHANGED <<cg, run, files>>
    /\ UNCHANGED pvars
    /\ UNCHANGED dvars

\* processFile returns err, worker returns it, and the errgroup keeps the
\* first error and cancels its context
WorkerFails(w) ==
    /\ wk' = [wk EXCEPT ![w] = Worker("returned", @.p, "error")]
    /\ gr' = IF gr.err = NoErr THEN [gr EXCEPT !.err = "error"] ELSE gr
    /\ ctx' = Cancel(ctx)

\* processFile: os.Open and os.Create
ProcessFileOpen(w) ==
    /\ wk[w].pc = "call"
    /\ \/ /\ wk' = [wk EXCEPT ![w].pc = "decode"]
          /\ UNCHANGED <<ctx, gr>>
       \/ WorkerFails(w)
    /\ files' = [files EXCEPT ![wk[w].p].calls = @ + 1]
    /\ UNCHANGED <<ch, sp, op>>
    /\ UNCHANGED <<cg, run>>
    /\ UNCHANGED pvars
    /\ UNCHANGED dvars

\* processFile: xml.NewDecoder(input).Decode(&g)
ProcessFileDecode(w) ==
    /\ wk[w].pc = "decode"
    /\ \/ /\ wk' = [wk EXCEPT ![w].pc = "print"]
          /\ UNCHANGED <<ctx, gr>>
       \/ WorkerFails(w)
    /\ UNCHANGED <<ch, sp, op>>
    /\ UNCHANGED <<cg, run, files>>
    /\ UNCHANGED pvars
    /\ UNCHANGED dvars

\* processFile: c.printer.Print(output, &g)
ProcessFilePrint(w) ==
    /\ wk[w].pc = "print"
    /\ \/ /\ wk' = [wk EXCEPT ![w].pc = "progress"]
          /\ files' = [files EXCEPT ![wk[w].p].converted = @ + 1]
          /\ UNCHANGED <<ctx, gr>>
       \/ WorkerFails(w) /\ UNCHANGED files
    /\ UNCHANGED <<ch, sp, op>>
    /\ UNCHANGED <<cg, run>>
    /\ UNCHANGED pvars
    /\ UNCHANGED dvars

\* processFile, case c.progress <- struct{}{}, and outputProgress, case
\* <-c.progress: done++, and return nil with the deferred close of
\* c.progressDone once done == l; the worker is back at its select
ProcessFileProgress(w) ==
    /\ wk[w].pc = "progress"
    /\ op.pc = "select"
    /\ ~ctx.done
    /\ wk' = [wk EXCEPT ![w] = Worker("select", 0, NoErr)]
    /\ op' = [pc |-> IF op.done + 1 = MaxPaths THEN "returned" ELSE "select",
              done |-> op.done + 1]
    /\ UNCHANGED <<ctx, ch, sp, gr>>
    /\ UNCHANGED <<cg, run, files>>
    /\ UNCHANGED pvars
    /\ UNCHANGED dvars

\* processFile, case <-c.ctx.Done(): return nil; the worker is back at its
\* select
ProcessFileDone(w) ==
    /\ wk[w].pc = "progress"
    /\ ctx.done
    /\ wk' = [wk EXCEPT ![w] = Worker("select", 0, NoErr)]
    /\ UNCHANGED <<ctx, ch, sp, op, gr>>
    /\ UNCHANGED <<cg, run, files>>
    /\ UNCHANGED pvars
    /\ UNCHANGED dvars

\* outputProgress, case <-c.ctx.Done(): return nil
OutputProgressReturn ==
    /\ op.pc = "select"
    /\ ctx.done
    /\ op' = [op EXCEPT !.pc = "returned"]
    /\ UNCHANGED <<ctx, ch, sp, wk, gr>>
    /\ UNCHANGED <<cg, run, files>>
    /\ UNCHANGED pvars
    /\ UNCHANGED dvars

\* os.Interrupt or SIGTERM arrives: sctx is cancelled, and c.ctx, its child
Signal ==
    /\ ~ctx.sig
    /\ run.pc # "returned"
    /\ ctx' = [sig |-> TRUE, done |-> TRUE]
    /\ UNCHANGED <<ch, sp, wk, op, gr>>
    /\ UNCHANGED <<cg, run, files>>
    /\ UNCHANGED pvars
    /\ UNCHANGED dvars

\* c.gr.Wait(): every goroutine of the group has returned; Wait cancels the
\* group's context and returns the first error.  With an error Run prints it
\* and returns 2, without one it goes on to <-done
Wait ==
    /\ ~gr.waited
    /\ sp.pc = "returned"
    /\ op.pc = "returned"
    /\ \A w \in Workers : wk[w].pc = "returned"
    /\ gr' = [gr EXCEPT !.waited = TRUE]
    /\ ctx' = Cancel(ctx)
    /\ run' = IF gr.err # NoErr
              THEN [pc |-> "returned", code |-> 2, msg |-> MsgFailed]
              ELSE [run EXCEPT !.pc = "done"]
    /\ UNCHANGED <<ch, sp, wk, op>>
    /\ UNCHANGED <<cg, files>>
    /\ UNCHANGED pvars
    /\ UNCHANGED dvars

\* sctx.Done() is closed: by a signal, or by the deferred cancel() of Run
SctxDone == ctx.sig \/ run.pc = "returned"

\* the goroutine of Run, select: case <-ctx.Done() or case <-sctx.Done(),
\* either when both are closed; it goes on to <-c.progressDone
CompletionSelect ==
    /\ cg.pc = "select"
    /\ \E b \in {"ctx", "sctx"} :
           /\ b = "ctx" => ctx.done
           /\ b = "sctx" => SctxDone
           /\ cg' = [cg EXCEPT !.pc = "progressDone", !.branch = b]
    /\ UNCHANGED <<ctx, ch, sp, wk, op, gr, run, files>>
    /\ UNCHANGED pvars
    /\ UNCHANGED dvars

\* the goroutine of Run, <-c.progressDone, which the deferred close of
\* outputProgress has closed: it prints the message of its case, and the
\* deferred close(done) runs
CompletionPrint ==
    /\ cg.pc = "progressDone"
    /\ op.pc = "returned"
    /\ cg' = [cg EXCEPT !.pc = "returned",
                        !.msg = IF cg.branch = "ctx" THEN MsgSuccess ELSE MsgStopped]
    /\ UNCHANGED <<ctx, ch, sp, wk, op, gr, run, files>>
    /\ UNCHANGED pvars
    /\ UNCHANGED dvars

\* Run, <-done, which the goroutine has closed: return 0
RunReturn ==
    /\ run.pc = "done"
    /\ cg.pc = "returned"
    /\ run' = [run EXCEPT !.pc = "returned", !.code = 0]
    /\ UNCHANGED <<ctx, ch, sp, wk, op, gr, cg, files>>
    /\ UNCHANGED pvars
    /\ UNCHANGED dvars

InitCli ==
    /\ format = Str0
    /\ printer = Unparsed
    /\ pool = {}
    /\ bufs = [b \in Calls |-> NewBuf]
    /\ sinks = [c \in Calls |-> Sink("builder")]
    /\ calls = [c \in Calls |-> Call("off", EmptyGraph)]
    /\ NoDocument
    /\ NoRun

CliNext ==
    \/ \E w \in Workers : SendPath(w)
    \/ SendPathsReturn
    \/ \E w \in Workers : WorkerReturn(w)
    \/ \E w \in Workers : ProcessFileOpen(w)
    \/ \E w \in Workers : ProcessFileDecode(w)
    \/ \E w \in Workers : ProcessFilePrint(w)
    \/ \E w \in Workers : ProcessFileProgress(w)
    \/ \E w \in Workers : ProcessFileDone(w)
    \/ OutputProgressReturn
    \/ Signal
    \/ Wait
    \/ CompletionSelect
    \/ CompletionPrint
    \/ RunReturn

SpecCli == InitCli /\ [][CliNext]_vars

\* the Go scheduler runs every goroutine that can take a step, and a call of
\* os.Open, Decode or Print returns; only the signal need not come
CliFairness ==
    /\ WF_vars(\E w \in Workers : SendPath(w))
    /\ WF_vars(SendPathsReturn)
    /\ \A w \in Workers :
           /\ WF_vars(WorkerReturn(w))
           /\ WF_vars(ProcessFileOpen(w))
           /\ WF_vars(ProcessFileDecode(w))
           /\ WF_vars(ProcessFilePrint(w))
           /\ WF_vars(ProcessFileProgress(w))
           /\ WF_vars(ProcessFileDone(w))
    /\ WF_vars(OutputProgressReturn)
    /\ WF_vars(Wait)
    /\ WF_vars(CompletionSelect)
    /\ WF_vars(CompletionPrint)
    /\ WF_vars(RunReturn)

SpecCliFair == SpecCli /\ CliFairness

(***************************************************************************)
(* Vocabulary of the properties.                                           *)
(***************************************************************************)
Parsed == printer # Unparsed

\* call c has returned without an error: its sink holds the output
Printed(c) == calls[c].pc = "done" /\ calls[c].err = NoErr

Output(c) == sinks[c].data

\* the pieces of s between the separators sep
RECURSIVE Split(_, _)
Split(s, sep) ==
    LET IsSep(c) == c = sep
        i == IndexFunc(s, IsSep)
    IN  IF i = -1 THEN <<s>>
        ELSE <<Slice(s, 0, i)>> \o Split(Slice(s, i + 1, Len(s)), sep)

\* the strings of ss with sep between them
RECURSIVE Join(_, _)
Join(ss, sep) ==
    IF Len(ss) = 0 THEN << >>
    ELSE IF Len(ss) = 1 THEN ss[1]
    ELSE ss[1] \o <<sep>> \o Join(Tail(ss), sep)

IsRatioChar(c) == c \in {"0", "1", "2", "3", "4", "5", "6", "7", "8", "9", "."}

IsModeChar(c) == c \in {"X", "F", "R", "C"}

IsCostVerb(c) == c \in {"w", "N", "M"}

\* the format is one directive "%" cf verb, with a verb that takes a cost
\* function; cf is what stands between the marker and the verb
OneDirective ==
    /\ Len(format) >= 2
    /\ format[1] = "%"
    /\ IsCostVerb(format[Len(format)])
    /\ \A i \in 2..(Len(format) - 1) : IsRatioChar(format[i]) \/ IsModeChar(format[i])

Verb == format[Len(format)]

CostFnText == SubSeq(format, 2, Len(format) - 1)

\* the longest leading run of ratio characters of s
RECURSIVE RatioRun(_)
RatioRun(s) ==
    IF Len(s) > 0 /\ IsRatioChar(s[1]) THEN <<s[1]>> \o RatioRun(Tail(s)) ELSE << >>

(***************************************************************************)
(* C4: a template "%" ratio verb whose ratio is a valid decimal literal of *)
(* the digits 0 to 9 and "." compiles to one directive whose cost function *)
(* has that ratio.  The code ends the ratio text at "0" and at "9", so     *)
(* this fails, for one on "%10N".                                          *)
(***************************************************************************)
C4_ValidRatioCompiles ==
    (/\ Parsed
     /\ OneDirective
     /\ CostFnText # << >>
     /\ RatioRun(CostFnText) = CostFnText
     /\ ~ParseFloat(CostFnText).err)
    => (/\ ~printer.isNil
        /\ Len(printer.ops) = 1
        /\ ~printer.ops[1].cost.isNil
        /\ printer.ops[1].cost.ratio = ParseFloat(CostFnText).v)

\* the four kinds of template error, by the Explanation of the
\* ParsePrinterError
ErrKind(e) ==
    CASE e = ErrEmpty -> "EmptyTemplate"
      [] e = ErrUnexpectedEnd -> "MissingVerb"
      [] e = ErrMissingVerb -> "MissingVerb"
      [] e = ErrInvalidVerb -> "InvalidVerb"
      [] e = ErrInvalidRatio -> "InvalidRatio"
      [] OTHER -> "none"

\* the format is "%" and a rest without a further marker: it compiles exactly
\* when its first directive does
OneMarker ==
    /\ Len(format) >= 1
    /\ format[1] = "%"
    /\ \A i \in 2..Len(format) : format[i] # "%"

\* how the rest after the marker is to be classified: the ratio text, then the
\* rounding letter if there is one, then the verb
KindOfRest(rest) ==
    LET r == RatioRun(rest)
        a == Slice(rest, Len(r), Len(rest))
        v == IF Len(a) > 0 /\ IsModeChar(a[1]) THEN Tail(a) ELSE a
    IN  IF Len(rest) > 0 /\ rest[1] \in {"n", "m", "a"} THEN "none"
        ELSE IF r # << >> /\ ParseFloat(r).err THEN "InvalidRatio"
        ELSE IF v = << >> THEN "MissingVerb"
        ELSE IF ~IsCostVerb(v[1]) THEN "InvalidVerb"
        ELSE "none"

(***************************************************************************)
(* C5: the empty template fails as EmptyTemplate; after a marker, nothing  *)
(* or only a cost function fails as MissingVerb, a character after the     *)
(* optional cost function that is not w, N or M fails as InvalidVerb, a    *)
(* ratio text that is no decimal literal fails as InvalidRatio; a failure  *)
(* returns no Printer.  The code ends the ratio text at "0" and at "9"     *)
(* (C4), so "%0" fails as InvalidVerb where only a cost function follows   *)
(* the marker.                                                             *)
(***************************************************************************)
C5_ErrorKinds ==
    Parsed =>
        /\ (format = << >>) => ErrKind(printer.err) = "EmptyTemplate"
        /\ OneMarker => ErrKind(printer.err) = KindOfRest(Tail(format))
        /\ (printer.err # NoErr) => printer.isNil

\* the lines of %N and of %M have a cost column: one more field than the id
\* or the two endpoints
Fields(line) == Len(Split(line, " "))

Lines(c) == IF Output(c) = << >> THEN << >> ELSE Split(Output(c), "\n")

IdLines(g) == Join([i \in 1..Len(g.Nodes) |-> AppendInt(g.Nodes[i].ID)], "\n")

EndpointLines(g) ==
    Join([i \in 1..Len(g.Edges) |->
             AppendInt(g.Edges[i].Src) \o <<" ">> \o AppendInt(g.Edges[i].Dst)], "\n")

PlainCosts(g) == Join([i \in 1..Len(g.Nodes) |-> AppendFloat(g.Nodes[i].Cost)], " ")

(***************************************************************************)
(* C7: in a directive "%" cf verb that compiles, the cost function of %N   *)
(* and %M is absent exactly when cf is empty (no ratio character and no    *)
(* rounding letter).  With an absent cost function %N prints the ids and   *)
(* %M the endpoints alone, and %w prints every node cost unchanged; with a *)
(* present one, a lone rounding letter included, every line of %N and %M   *)
(* has the cost column.                                                    *)
(***************************************************************************)
C7_AbsentCostFunction ==
    (Parsed /\ OneDirective /\ ~printer.isNil) =>
        /\ Len(printer.ops) = 1
        /\ Verb \in {"N", "M"} => (printer.ops[1].cost.isNil <=> CostFnText = << >>)
        /\ \A c \in Calls : Printed(c) =>
              LET g == calls[c].g
              IN  /\ (Verb = "N" /\ CostFnText = << >>) => Output(c) = IdLines(g)
                  /\ (Verb = "M" /\ CostFnText = << >>) => Output(c) = EndpointLines(g)
                  /\ (Verb = "w" /\ CostFnText = << >>) => Output(c) = PlainCosts(g)
                  /\ (Verb = "N" /\ CostFnText # << >>) =>
                        /\ Len(Lines(c)) = Len(g.Nodes)
                        /\ \A i \in 1..Len(Lines(c)) : Fields(Lines(c)[i]) = 2
                  /\ (Verb = "M" /\ CostFnText # << >>) =>
                        /\ Len(Lines(c)) = Len(g.Edges)
                        /\ \A i \in 1..Len(Lines(c)) : Fields(Lines(c)[i]) = 3

\* "%XN" has printed the sample graph: the cost column is there
C7_Witness ==
    /\ format = <<"%", "X", "N">>
    /\ Printed(1)
    /\ calls[1].g = SampleGraph
    /\ Output(1) = <<"1", " ", "1", ".", "5", "\n", "2", " ", "0", ".", "2", "5">>

UniqueIds(g) ==
    \A i, j \in 1..Len(g.Nodes) : g.Nodes[i].ID = g.Nodes[j].ID => i = j

\* the cell (i, j) of the adjacency matrix
Cell(g, i, j) ==
    LET a == g.Nodes[i].ID
        b == g.Nodes[j].ID
    IN  IF i = j THEN "0"
        ELSE IF \E k \in 1..Len(g.Edges) :
                    \/ g.Edges[k].Src = a /\ g.Edges[k].Dst = b
                    \/ ~g.Edges[k].Directed /\ g.Edges[k].Src = b /\ g.Edges[k].Dst = a
        THEN "1"
        ELSE "0"

(***************************************************************************)
(* C6: for a graph with unique node ids, %a prints one row per node and    *)
(* one cell per node in each row, in node input order; the cell (i, j) is  *)
(* 0 on the diagonal, 1 when an edge leads from node i to node j or an     *)
(* undirected edge from node j to node i, and 0 otherwise.                 *)
(***************************************************************************)
C6_AdjacencyMatrix ==
    \A c \in Calls :
        (Printed(c) /\ format = MatrixFormat /\ UniqueIds(calls[c].g)) =>
            LET g == calls[c].g
                n == Len(g.Nodes)
                rows == Lines(c)
            IN  /\ Len(rows) = n
                /\ \A i \in 1..n :
                      LET cells == Split(rows[i], " ")
                      IN  /\ Len(cells) = n
                          /\ \A j \in 1..n : cells[j] = <<Cell(g, i, j)>>

\* nodes 2, 1 and 3, a self-loop on node 2, a directed edge from 1 to 2: the
\* diagonal stays 0 and the edge counts in one direction only
C6_Witness ==
    /\ Printed(1)
    /\ format = MatrixFormat
    /\ calls[1].g = Graph(<<Node(2, DecInt(0)), Node(1, DecInt(0)), Node(3, DecInt(0))>>,
                          <<Edge(2, 2, Dec(15, 1), FALSE), Edge(1, 2, DecInt(0), TRUE)>>)
    /\ Output(1) = <<"0", " ", "0", " ", "0", "\n", "1", " ", "0", " ", "0", "\n",
                     "0", " ", "0", " ", "0">>

\* call c is between its getWriter and its return
Active(c) == calls[c].pc = "apply"

(***************************************************************************)
(* C1: the pooled bufio.Writer of a Print call is held by that call alone  *)
(* until Print returns, and is in the pool again once the call has         *)
(* returned, with or without an error.  getWriter puts the buffer back as  *)
(* it returns, so a second call gets it while the first still writes.      *)
(***************************************************************************)
C1_ExclusiveBuffer ==
    /\ \A c, d \in Calls :
          (c # d /\ Active(c) /\ Active(d) /\ calls[c].wr # 0) => calls[c].wr # calls[d].wr
    /\ \A c \in Calls : (calls[c].pc = "done" /\ calls[c].wr # 0) => calls[c].wr \in pool

FxDone == fx.pc = "done"

\* the stream did not end before the root element was closed
Complete == ~doc.truncated

\* the stream ended inside a node or edge element: what the stream parser of
\* FromXMLNoStd hands out of such an element is not settled by this repository
CutInside == doc.truncated /\ doc.cur.kind # ""

NsDone == ns.pc = "done"

(***************************************************************************)
(* C2: a document with a node element without an id attribute, or an edge  *)
(* element without a source child or without a target child, makes both    *)
(* decoders return an error and no graph.  Edge.unmarshalXML never looks   *)
(* whether source and target were there, so FromXML decodes such an edge   *)
(* with the endpoint 0.                                                    *)
(***************************************************************************)
C2_MissingFieldFails ==
    Complete =>
        /\ (FxDone /\ doc.missingField) => (fx.err # NoErr /\ fx.result = EmptyGraph)
        /\ (NsDone /\ doc.missingField) => (ns.err # NoErr /\ ns.result = EmptyGraph)

(***************************************************************************)
(* C3: on every complete document FromXML and FromXMLNoStd either both     *)
(* return an error or both return equal graphs.  They differ on an edge    *)
(* without a target child, which only FromXMLNoStd rejects.                *)
(***************************************************************************)
C3_SameOutcome ==
    (Complete /\ FxDone /\ NsDone) =>
        /\ (fx.err = NoErr) <=> (ns.err = NoErr)
        /\ (fx.err = NoErr) => fx.result = ns.result

(***************************************************************************)
(* C8: when a decoder returns an error the graph it returns is the zero    *)
(* value, whatever it had decoded before, and it reads nothing further.    *)
(***************************************************************************)
C8_NoPartialGraph ==
    [][/\ (fx'.err # NoErr) => (fx'.pc = "done" /\ fx'.result = EmptyGraph)
       /\ (ns'.err # NoErr) => (ns'.pc = "done" /\ ns'.result = EmptyGraph)
       /\ (fx.err # NoErr) => fx' = fx
       /\ (ns.err # NoErr) => ns' = ns]_vars

\* both decoders had decoded an element when they failed on a later one
C8_Witness ==
    /\ fx.err # NoErr
    /\ ns.err # NoErr
    /\ Len(fx.g.Nodes) + Len(fx.g.Edges) > 0
    /\ Len(ns.g.Nodes) + Len(ns.g.Edges) > 0
    /\ fx.result = EmptyGraph
    /\ ns.result = EmptyGraph

(***************************************************************************)
(* C9: a document whose stream ends before the document is complete makes  *)
(* both decoders return an error.  At the end of the stream the loop of    *)
(* FromXML returns the graph read so far with a nil error, whether or not  *)
(* the enclosing element was closed.                                       *)
(***************************************************************************)
C9_TruncatedFails ==
    /\ (FxDone /\ doc.truncated) => (fx.err # NoErr /\ fx.result = EmptyGraph)
    /\ (NsDone /\ doc.truncated /\ ~CutInside) => (ns.err # NoErr /\ ns.result = EmptyGraph)

(***************************************************************************)
(* C10: a node id, an edge source or target whose text is no integer       *)
(* literal, the empty text included, or a cost element whose text is no    *)
(* floating-point literal, makes both decoders fail.  FromXML parses a     *)
(* field only when character data arrives, so an empty source, target or   *)
(* cost element leaves the field 0 without an error.                       *)
(***************************************************************************)
C10_BadNumberFails ==
    Complete =>
        /\ (FxDone /\ doc.badNumber) => fx.err # NoErr
        /\ (NsDone /\ doc.badNumber) => ns.err # NoErr

\* how many nodes and edges a graph holds
Size(g) == Len(g.Nodes) + Len(g.Edges)

(***************************************************************************)
(* C11: an element that is neither node nor edge and stands where node and *)
(* edge elements are expected is skipped with its whole subtree: a decoded *)
(* graph holds the node and edge elements right under the root and no      *)
(* other.  The loop of FromXML keeps no depth, so it decodes a node that   *)
(* stands inside such an element as well.                                  *)
(***************************************************************************)
C11_SubtreeSkipped ==
    (Complete /\ ~doc.missingField /\ ~doc.badNumber) =>
        /\ (FxDone /\ fx.err = NoErr) => Size(fx.result) = doc.top
        /\ (NsDone /\ ns.err = NoErr) => Size(ns.result) = doc.top

\* the cost column of a line: a space and the transformed cost when the
\* directive has a cost function, nothing otherwise
CostColumn(fn, cost) ==
    IF fn.isNil THEN << >> ELSE <<" ">> \o AppendFloat(Cost(fn, cost))

NodeLine(fn, nd) == AppendInt(nd.ID) \o CostColumn(fn, nd.Cost)

EdgeLine(fn, e) ==
    AppendInt(e.Src) \o <<" ">> \o AppendInt(e.Dst) \o CostColumn(fn, e.Cost)

\* how many of the bytes of s are the byte c
Count(s, c) == Cardinality({i \in 1..Len(s) : s[i] = c})

(***************************************************************************)
(* C12: %N prints one line per node and %M one line per edge, in input     *)
(* order: the id, or source and target with a space between, then a space  *)
(* and the transformed cost when a cost function is present; the lines are *)
(* separated by one newline and nothing follows the last, so k > 0 items   *)
(* give k - 1 newlines.                                                    *)
(***************************************************************************)
C12_ListLines ==
    (Parsed /\ OneDirective /\ ~printer.isNil /\ Verb \in {"N", "M"}) =>
        \A c \in Calls : Printed(c) =>
            LET g == calls[c].g
                fn == printer.ops[1].cost
                k == IF Verb = "N" THEN Len(g.Nodes) ELSE Len(g.Edges)
            IN  /\ Verb = "N" =>
                      Output(c) = Join([i \in 1..k |-> NodeLine(fn, g.Nodes[i])], "\n")
                /\ Verb = "M" =>
                      Output(c) = Join([i \in 1..k |-> EdgeLine(fn, g.Edges[i])], "\n")
                /\ k > 0 => Count(Output(c), "\n") = k - 1
                /\ k = 0 => Output(c) = << >>

\* "%.5M" has printed the two edges of the sample graph
C12_Witness ==
    /\ format = <<"%", ".", "5", "M">>
    /\ Printed(1)
    /\ calls[1].g = SampleGraph
    /\ Output(1) = <<"1", " ", "2", " ", "0", ".", "2", "5", "\n",
                     "2", " ", "1", " ", "1", ".", "5">>

(***************************************************************************)
(* C13: %w prints the transformed cost of every node in input order on one *)
(* line, with one space between two costs and none before the first or     *)
(* after the last; for a graph without nodes it prints nothing and returns *)
(* no error.                                                               *)
(***************************************************************************)
C13_CostsLine ==
    (Parsed /\ OneDirective /\ ~printer.isNil /\ Verb = "w") =>
        \A c \in Calls :
            LET g == calls[c].g
                fn == printer.ops[1].cost
            IN  /\ Printed(c) =>
                      /\ Output(c) = Join([i \in 1..Len(g.Nodes) |->
                                              AppendFloat(Cost(fn, g.Nodes[i].Cost))], " ")
                      /\ Count(Output(c), "\n") = 0
                      /\ Len(g.Nodes) > 0 => Count(Output(c), " ") = Len(g.Nodes) - 1
                      /\ Len(g.Nodes) = 0 => Output(c) = << >>
                /\ (calls[c].pc = "done" /\ Len(g.Nodes) = 0) => calls[c].err = NoErr

\* "%.5w" has printed the two costs of the sample graph, halved
C13_Witness ==
    /\ format = <<"%", ".", "5", "w">>
    /\ Printed(1)
    /\ calls[1].g = SampleGraph
    /\ Output(1) = <<"0", ".", "7", "5", " ", "0", ".", "1", "2", "5">>

\* call c has returned
Returned(c) == calls[c].pc = "done"

(***************************************************************************)
(* C14: a Print call returns an error only when a write or the flush to    *)
(* its own sink failed, and with it the call is over; for a sink that      *)
(* never fails it returns a nil error.  The buffer that getWriter put back *)
(* too early (C1) is Reset to the sink of a second call, and the first     *)
(* call then returns the error of a sink that is not its own.              *)
(***************************************************************************)
C14_OnlySinkErrors ==
    \A c \in Calls :
        /\ (calls[c].err # NoErr) => (Returned(c) /\ sinks[c].kind = "faulty")
        /\ (Returned(c) /\ sinks[c].kind # "faulty") => calls[c].err = NoErr

\* the outputs of the directives from directive k on, one after the other
RECURSIVE Concat(_, _, _)
Concat(ops, g, k) ==
    IF k > Len(ops) THEN << >> ELSE apply(ops[k], g) \o Concat(ops, g, k + 1)

(***************************************************************************)
(* C15: the count that a Print call returns is the number of bytes its     *)
(* sink has received when the call returns; on success these are the       *)
(* outputs of the directives in template order with nothing between them.  *)
(* Print counts what the bufio.Writer took, so when the sink fails the     *)
(* count includes bytes that never reached it.                             *)
(***************************************************************************)
C15_ByteCount ==
    \A c \in Calls : Returned(c) =>
        /\ calls[c].n = Len(Output(c))
        /\ calls[c].err = NoErr => Output(c) = Concat(printer.ops, calls[c].g, 1)

(***************************************************************************)
(* C16: a Print call changes neither its Graph nor the operations of the   *)
(* Printer, and two Print calls of one Printer on equal graphs, each with  *)
(* a sink of its own, leave the same bytes in their sinks.  Two calls that *)
(* run at once share the buffer that getWriter put back too early (C1):    *)
(* the bytes of both end up in the sink of one of them.                    *)
(***************************************************************************)
C16_SameOutput ==
    [][/\ Parsed => printer' = printer
       /\ \A c \in Calls : calls'[c].g = calls[c].g
       /\ \A c, d \in Calls :
             (/\ calls'[c].pc = "done" /\ calls'[c].err = NoErr
              /\ calls'[d].pc = "done" /\ calls'[d].err = NoErr
              /\ calls'[c].g = calls'[d].g)
             => sinks'[c].data = sinks'[d].data]_vars

\* s with every "%" doubled
RECURSIVE Double(_)
Double(s) ==
    IF Len(s) = 0 THEN << >>
    ELSE (IF s[1] = "%" THEN <<"%", "%">> ELSE <<s[1]>>) \o Double(Tail(s))

\* s with the byte after every "%" left out
RECURSIVE Undouble(_)
Undouble(s) ==
    IF Len(s) = 0 THEN << >>
    ELSE IF s[1] = "%" THEN <<"%">> \o Undouble(Slice(s, 2, Len(s)))
    ELSE <<s[1]>> \o Undouble(Tail(s))

\* the format is a non-empty string with every "%" doubled
IsDoubled == format # << >> /\ Double(Undouble(format)) = format

(***************************************************************************)
(* C17: text outside directives is printed byte for byte and "%%" prints   *)
(* one "%": the template made from a non-empty string s by doubling each   *)
(* "%" compiles and prints exactly s, for every graph.                     *)
(***************************************************************************)
C17_LiteralText ==
    (Parsed /\ IsDoubled) =>
        /\ ~printer.isNil
        /\ printer.err = NoErr
        /\ \A c \in Calls : Printed(c) => Output(c) = Undouble(format)

\* "n%%w" has printed n%w for the sample graph
C17_Witness ==
    /\ format = <<"n", "%", "%", "w">>
    /\ Printed(1)
    /\ calls[1].g = SampleGraph
    /\ Output(1) = <<"n", "%", "w">>

\* the ratio and the rounding letter that the text between the marker and
\* the verb asks for
RatioOf(cf) == IF RatioRun(cf) = << >> THEN DecInt(1) ELSE ParseFloat(RatioRun(cf)).v

ModeOf(cf) == IF Len(cf) > Len(RatioRun(cf)) THEN cf[Len(cf)] ELSE "X"

\* v is the product p = m / 10^e rounded as the letter says
IsRounded(mode, p, v) ==
    LET q == Pow10(p.e)
    IN  CASE mode = "F" -> v.e = 0 /\ v.m * q <= p.m /\ (v.m + 1) * q > p.m
          [] mode = "C" -> v.e = 0 /\ v.m * q >= p.m /\ (v.m - 1) * q < p.m
          [] mode = "R" -> v.e = 0 /\ 2 * Abs(v.m * q - p.m) <= q
          [] OTHER -> Norm(v) = Norm(p)

\* the costs that call c printed, and the costs of the graph they come from
CostsPrinted(c) ==
    CASE Verb = "w" -> Split(Output(c), " ")
      [] Verb = "N" -> [i \in 1..Len(Lines(c)) |-> Split(Lines(c)[i], " ")[2]]
      [] Verb = "M" -> [i \in 1..Len(Lines(c)) |-> Split(Lines(c)[i], " ")[3]]

CostsGiven(g) ==
    IF Verb = "M" THEN [i \in 1..Len(g.Edges) |-> g.Edges[i].Cost]
    ELSE [i \in 1..Len(g.Nodes) |-> g.Nodes[i].Cost]

(***************************************************************************)
(* C18: a cost function multiplies the cost by the ratio and then rounds   *)
(* the product: F to the largest integer not above it, C to the smallest   *)
(* integer not below it, R to the nearest integer, X or no letter not at   *)
(* all.  Every cost printed by %w, %N or %M with a cost function is the    *)
(* cost of the graph treated so.                                           *)
(***************************************************************************)
C18_RatioThenRound ==
    (Parsed /\ OneDirective /\ ~printer.isNil /\ (Verb = "w" \/ CostFnText # << >>)) =>
        \A c \in Calls : (Printed(c) /\ calls[c].g # EmptyGraph) =>
            LET given == CostsGiven(calls[c].g)
                printed == CostsPrinted(c)
            IN  /\ Len(printed) = Len(given)
                /\ \A i \in 1..Len(given) :
                      /\ ~ParseFloat(printed[i]).err
                      /\ IsRounded(ModeOf(CostFnText),
                                   DecMul(given[i], RatioOf(CostFnText)),
                                   ParseFloat(printed[i]).v)

\* "%2RM" has printed the edges with the costs 0.3, 0.1 and 1.4 as 1, 0 and 3
C18_Witness ==
    /\ format = <<"%", "2", "R", "M">>
    /\ Printed(1)
    /\ calls[1].g = CostGraph
    /\ Output(1) = <<"1", " ", "2", " ", "1", "\n", "1", " ", "3", " ", "0", "\n",
                     "2", " ", "3", " ", "3">>

\* the directed fields of the edges of a graph, in order
Directeds(g) == [i \in 1..Len(g.Edges) |-> g.Edges[i].Directed]

(***************************************************************************)
(* C19: the directed field of an edge is true exactly when the edge        *)
(* element has a directed attribute whose value is "yes"; any other value  *)
(* and a missing attribute give false, in both decoders.                   *)
(***************************************************************************)
C19_DirectedIsYes ==
    Complete =>
        /\ (FxDone /\ fx.err = NoErr) => Directeds(fx.result) = doc.yes
        /\ (NsDone /\ ns.err = NoErr) => Directeds(ns.result) = doc.yes

\* both decoders have decoded the edge from 1 to 1 with directed="yes" as a
\* directed edge
C19_Witness ==
    /\ Complete
    /\ FxDone /\ fx.err = NoErr
    /\ NsDone /\ ns.err = NoErr
    /\ doc.yes = <<TRUE>>
    /\ fx.result.Edges = <<Edge(1, 1, DecInt(0), TRUE)>>
    /\ ns.result.Edges = <<Edge(1, 1, DecInt(0), TRUE)>>

\* worker w makes a new call: it holds a path and goes on to processFile,
\* whose first statement opens the file
StartsProcessFile(w) == wk[w].pc = "call" /\ wk'[w].pc # "call"

\* the call of processFile that worker w is in, past the opening of its files
InProcessFile(w) == wk[w].pc \in {"decode", "print"}

\* worker w leaves the decoding or the printing of its document otherwise
\* than by the next statement of processFile or by the error of the one it
\* is at
Interrupted(w) ==
    /\ InProcessFile(w)
    /\ wk'[w] # wk[w]
    /\ ~ \/ wk[w].pc = "decode" /\ wk'[w] = [wk[w] EXCEPT !.pc = "print"]
         \/ wk[w].pc = "print" /\ wk'[w] = [wk[w] EXCEPT !.pc = "progress"]
         \/ wk'[w] = Worker("returned", wk[w].p, "error")

\* C20: once c.ctx is cancelled, by the error of a worker or by a signal,
\* sendPaths hands out no further path and no worker starts processFile on
\* a path, and at no time is a call of processFile that decodes or prints
\* its document left otherwise than by its own next statement or error.
C20_NoNewCallAfterCancel ==
    [][/\ ctx.done => /\ sp'.i = sp.i
                      /\ \A w \in Workers : ~StartsProcessFile(w)
       /\ \A w \in Workers : ~Interrupted(w)]_vars

\* the parts of C20 that hold: nothing is handed out once c.ctx is cancelled,
\* and no call of processFile is interrupted
C20_NoHandOutNoInterrupt ==
    [][/\ ctx.done => sp'.i = sp.i
       /\ \A w \in Workers : ~Interrupted(w)]_vars

\* the character data that is read next lies directly inside a child element
\* of the given name at depth 1 of the open node or edge element
DirectlyIn(name) ==
    /\ doc.cur.kind # ""
    /\ Rel(doc) = 1
    /\ doc.stack[Len(doc.stack)] = name

\* Node.unmarshalXML, Edge.unmarshalXML of FromXML go on over this step
InNode == fx.pc = "node" /\ fx'.pc = "node"

InEdge == fx.pc = "edge" /\ fx'.pc = "edge"

\* C21: in FromXML the cost of a node and the cost, source and target of an
\* edge change only by character data that lies directly inside a child
\* element of that name at depth 1 of the node or edge, never by character
\* data elsewhere, for edges as for nodes.
C21_FieldsFromDirectChild ==
    [][/\ (InNode /\ fx'.node.Cost # fx.node.Cost) => DirectlyIn("cost")
       /\ (InEdge /\ fx'.edge.Cost # fx.edge.Cost) => DirectlyIn("cost")
       /\ (InEdge /\ fx'.edge.Src # fx.edge.Src) => DirectlyIn("source")
       /\ (InEdge /\ fx'.edge.Dst # fx.edge.Dst) => DirectlyIn("target")]_vars

\* the part of C21 on character data below depth 1: it changes no field of
\* a node
C21_NodeNestedIgnored ==
    [][(InNode /\ fx'.node.Cost # fx.node.Cost) => Rel(doc) <= 1]_vars

\* the same for an edge
C21_EdgeNestedIgnored ==
    [][(InEdge /\ fx'.edge # fx.edge) => Rel(doc) <= 1]_vars

\* the characters of the directive that text begins with, the marker left
\* out: the ratio characters, the rounding letter if one follows them, and
\* the verb
DirectiveLen(text) ==
    LET n == Len(RatioRun(text))
    IN  n + (IF n < Len(text) /\ IsModeChar(text[n + 1]) THEN 1 ELSE 0) + 1

\* the operations of the template that stands after the first k characters
\* of s, none when nothing stands there
OpsAfter(s, k) ==
    IF k >= Len(s) THEN << >> ELSE ParsePrinter(Slice(s, k, Len(s))).ops

\* the format begins with a directive: it takes DirectiveLen characters after
\* the marker, and compilation goes on right after them
ConsumesDirective ==
    LET text == Slice(format, 1, Len(format))
    IN  /\ parseArg(text).advance = DirectiveLen(text)
        /\ printer.ops = <<parseArg(text).op>> \o OpsAfter(text, DirectiveLen(text))

\* the printer of the format is the printer a followed by the printer b: it
\* compiled, and on the graph of every call it prints, and has printed where
\* the call returned without error, the output of a and then the output of b
PrintsBoth(a, b) ==
    /\ printer.err = NoErr
    /\ \A c \in Calls :
           /\ applyFrom(printer.ops, calls[c].g, 1)
                  = applyFrom(a.ops, calls[c].g, 1) \o applyFrom(b.ops, calls[c].g, 1)
           /\ (Returned(c) /\ calls[c].err = NoErr) =>
                  Output(c) = applyFrom(a.ops, calls[c].g, 1) \o applyFrom(b.ops, calls[c].g, 1)

Compiles(p) == p.err = NoErr

\* C22: a directive takes the marker, the ratio characters, the rounding
\* letter if there is one, and the verb, and compilation goes on right after
\* the verb; so a format that is a template A followed by a template B, both
\* of which compile, compiles and prints the output of A and then that of B.
C22_DirectivesCompose ==
    Parsed =>
        /\ (Compiles(printer) /\ format[1] = "%") => ConsumesDirective
        /\ \A k \in 1..(Len(format) - 1) :
               (/\ Compiles(ParsePrinter(Slice(format, 0, k)))
                /\ Compiles(ParsePrinter(Slice(format, k, Len(format))))) =>
                   PrintsBoth(ParsePrinter(Slice(format, 0, k)),
                              ParsePrinter(Slice(format, k, Len(format))))

\* "%5w" and then "z": a ratio with no rounding letter, the verb, and text
C22_Witness ==
    /\ format = <<"%", "5", "w", "z">>
    /\ Compiles(printer)
    /\ Returned(1)
    /\ calls[1].err = NoErr
    /\ calls[1].g = SampleGraph
    /\ Output(1) = <<"7", ".", "5", " ", "1", ".", "2", "5", "z">>

\* every goroutine that Run started has returned
GoroutinesReturned ==
    /\ sp.pc = "returned"
    /\ op.pc = "returned"
    /\ cg.pc = "returned"
    /\ \A w \in Workers : wk[w].pc = "returned"

RunReturned == run.pc = "returned"

\* C23: under every interleaving, with processFile calls that fail and a
\* signal at any point, every goroutine returns and CLI.Run returns.
C23_RunTerminates == <>(GoroutinesReturned /\ RunReturned)

\* a run in which a processFile call failed and a signal came has ended
C23_Witness ==
    /\ GoroutinesReturned
    /\ RunReturned
    /\ gr.err # NoErr
    /\ ctx.sig

\* the workers that hold the path p
Holders(p) == {w \in Workers : wk[w].pc # "returned" /\ wk[w].p = p}

\* Run has returned 0 and no signal came
FinishedClean == RunReturned /\ run.code = 0 /\ gr.err = NoErr /\ ~ctx.sig

\* C24: every path is handed to at most one worker and processed at most
\* once, the counter of outputProgress never exceeds len(c.filepaths), and
\* when Run finishes without error and without cancellation every path was
\* processed exactly once and the counter is len(c.filepaths).
C24_EachPathOnce ==
    /\ \A p \in Paths :
           /\ files[p].handed <= 1
           /\ files[p].calls <= 1
           /\ files[p].converted <= files[p].calls
           /\ Cardinality(Holders(p)) <= 1
    /\ op.done <= MaxPaths
    /\ FinishedClean =>
           /\ \A p \in Paths : files[p].calls = 1 /\ files[p].converted = 1
           /\ op.done = MaxPaths

\* a run that finished without error and without a signal
C24_Witness ==
    /\ FinishedClean
    /\ GoroutinesReturned
    /\ op.done = MaxPaths
    /\ \A p \in Paths : files[p].handed = 1

\* some call of processFile returned an error
SomeFileFailed == \E w \in Workers : wk[w].err # NoErr

\* the message of success has been printed
SuccessPrinted == cg.msg = MsgSuccess

\* C25: the message of success is printed only when every file was
\* converted, never in a run in which a processFile call returned an error
\* or which a signal stopped; and Run returns 2 in every run in which a
\* processFile call returned an error.
C25_SuccessOnlyWhenConverted ==
    /\ SuccessPrinted =>
           /\ \A p \in Paths : files[p].converted = 1
           /\ ~SomeFileFailed
           /\ ~ctx.sig
    /\ (RunReturned /\ SomeFileFailed) => run.code = 2

\* the part of C25 on the value Run returns
C25_FailureReturnsTwo == (RunReturned /\ SomeFileFailed) => run.code = 2

====
